---- MODULE Spec2Model ----
(***************************************************************************)
(* A model of the SofaScore EPL scraper: the crawl loop of runner.main,    *)
(* the navigation operations select_season / navigate_to_round, and the    *)
(* per-match tab handling of scrape_match (src/scraper.py, src/runner.py). *)
(*                                                                         *)
(* The browser and the remote page are the environment.  Every call the    *)
(* code makes to them has the outcomes the code itself distinguishes       *)
(* (element found or not, click accepted or not, exception raised or not)  *)
(* and the model draws them with \E.  A click the driver accepts need not  *)
(* have changed the page by the time the fixed sleep after it has passed.  *)
(*                                                                         *)
(* Further specifications cover the field extractors scrape_match calls on *)
(* the match page (SpecExtract) and two pure helpers, get_match_links      *)
(* (SpecLinks) and extract_total_votes (SpecVotes).                        *)
(***************************************************************************)
EXTENDS Integers, Sequences, FiniteSets, TLC

VARIABLES
    \* ---- the remote page shown in the shared (original) tab
    displayedSeason,   \* text of the season label, NoSeason when it is not found
    round,             \* the round the page shows
    labelOK,           \* whether the round label is found and reads "Round N"
    \* ---- observation of the navigation calls (test harness)
    lastNav,           \* the last select_season / navigate_to_round call
    calls,             \* number of harness calls made
    \* ---- the inputs of main and the remote site
    site,              \* round -> match ids of its link elements, in page order
                       \* (Unknown until the round's links are first read)
    start_matchday,
    end_matchday,
    \* ---- the browser session
    session,           \* "none" | "live" | "quit"
    windows,           \* set of open window handles
    focus,             \* handle the driver is switched to
    \* ---- main
    pc,
    md,
    links,
    li,
    all_match_data,    \* scraper.all_match_data
    scraped_ids,       \* main's set of seen ids
    disk,              \* the durable store behind load_data / save_data
    \* ---- observation of the run
    run,               \* 1 for the first run of main, 2 for the second, ...
    prevRun,           \* "same": a run before ended normally and this run has
                       \* so far read only rounds whose links were read before
    loaded,            \* the store load_data returned when this run started
    scrapes,           \* number of scrape_match calls of this run
    lastScrape,        \* the last scrape_match call: its match id and outcome
    saves,             \* number of save_data calls of this run
    exit,              \* how main left its try block
    \* ---- one scrape_match call seen from inside (lines 250-274)
    xpc,               \* the extractor the try block is about to call
    fields,            \* what the extractors called so far returned
    xexc,              \* the exception raised in the try block, and where
    result,            \* the dict scrape_match returns
    missed,            \* extractors all of whose lookups found nothing
    transient,         \* extractors in which a found element went stale
    statsLog,          \* per statistics view: attempts, click, poll, read
    \* ---- the pure helpers, called on their own
    hpc,               \* "idle" | "ready" (inputs drawn) | "done" (called)
    link_elems,        \* the elements MATCH_LINK_SELECTOR matches, in order
    match_links,       \* what get_match_links returned for them
    vote_text,         \* the text handed to extract_total_votes
    total_votes,       \* what extract_total_votes returned for it
    click              \* one safe_click call: retries, iterations, clicks, result

pageVars == <<displayedSeason, round, labelOK>>
navVars == <<lastNav, calls>>
inputVars == <<site, start_matchday, end_matchday>>
browserVars == <<session, windows, focus>>
mainVars == <<pc, md, links, li, all_match_data, scraped_ids, disk>>
obsVars == <<run, prevRun, loaded, scrapes, lastScrape, saves, exit>>
extractVars == <<xpc, fields, xexc, result, missed, transient, statsLog>>
helperVars == <<hpc, link_elems, match_links, vote_text, total_votes, click>>
crawlVars == <<pageVars, navVars, inputVars, browserVars, mainVars, obsVars>>
vars == <<crawlVars, extractVars, helperVars>>

----------------------------------------------------------------------------
\* Bounds of the model.

\* Rounds the page can show are 1..LastRound.
LastRound == 3
\* Calls the navigation harness makes in one behaviour.
MaxCalls == 3
\* Runs of main in one behaviour.
MaxRuns == 2

Rounds == 1..LastRound
Seasons == {"24/25", "23/24"}
NoSeason == "not found"

\* Match ids the remote site can list.
MatchIds == {111, 222}
\* Matchdays main can be asked for are 1..MaxMatchday.
MaxMatchday == 2

\* A round whose links have not been read yet.
Unknown == <<0>>

\* Python's None as returned by _extract_round.
None == -1

Abs(x) == IF x < 0 THEN -x ELSE x
Min(a, b) == IF a < b THEN a ELSE b
Max(a, b) == IF a > b THEN a ELSE b
Clamp(r) == Max(1, Min(LastRound, r))

----------------------------------------------------------------------------
\* Navigation (src/scraper.py, SofaScoreEPLScraper).

\* The successful clicks of one call, per control.
NoUI == [drop |-> 0, opt |-> 0, next |-> 0, prev |-> 0]
Interactions(ui) == ui.drop + ui.opt + ui.next + ui.prev

\* What the environment answers during one navigation call.
\*   dropOK : the dropdown button is found and safe_click on it returns True
\*   optOK  : the option is found and safe_click on it returns True
\*   good   : how many arrow clicks in a row succeed (found and clicked)
\*   took   : the page has followed the accepted clicks when the call returns
NavEnv == [dropOK : BOOLEAN, optOK : BOOLEAN, good : 0..LastRound, took : BOOLEAN]

\* Mutant: the early return of select_season is never taken.
NeverSelected(shown, season) == FALSE

_is_season_selected(shown, season) == shown # NoSeason /\ shown = season

select_season(season, shown, e) ==
    IF _is_season_selected(shown, season)
    THEN [ok |-> TRUE, shown |-> shown, ui |-> NoUI, via |-> "already"]
    ELSE IF ~e.dropOK
    THEN [ok |-> FALSE, shown |-> shown, ui |-> NoUI, via |-> "dropdown"]
    ELSE IF ~e.optOK
    THEN [ok |-> FALSE, shown |-> shown,
          ui |-> [NoUI EXCEPT !.drop = 1], via |-> "dropdown"]
    ELSE [ok |-> TRUE, shown |-> IF e.took THEN season ELSE shown,
          ui |-> [NoUI EXCEPT !.drop = 1, !.opt = 1], via |-> "dropdown"]

_extract_round(rnd, lbl) == IF lbl THEN rnd ELSE None

\* Mutant: the unread round is not replaced by 0.
OrZeroKeepsNone(current) == current

\* current or 0
OrZero(current) == IF current = None THEN 0 ELSE current

\* Mutant: the arrow is the next-round arrow whatever the sign.
ArrowSelectorNext(diff) == "next"

ArrowSelector(diff) == IF diff > 0 THEN "next" ELSE "prev"

StepCount(diff) == Abs(diff)

ArrowSteps(rnd, selector, n) ==
    IF selector = "next" THEN Clamp(rnd + n) ELSE Clamp(rnd - n)

navigate_to_round(target, rnd, lbl, e) ==
    LET current == _extract_round(rnd, lbl)
        diff == target - OrZero(current)
        selector == ArrowSelector(diff)
        n == StepCount(diff)
        done == Min(e.good, n)
        dropUI == [NoUI EXCEPT !.drop = IF e.dropOK THEN 1 ELSE 0]
    IN
    IF current = target
    THEN [ok |-> TRUE, round |-> rnd, ui |-> NoUI, via |-> "already",
          current |-> current]
    ELSE IF e.dropOK /\ e.optOK
    THEN [ok |-> TRUE, round |-> IF e.took THEN target ELSE rnd,
          ui |-> [NoUI EXCEPT !.drop = 1, !.opt = 1], via |-> "dropdown",
          current |-> current]
    ELSE [ok |-> done = n,
          round |-> IF e.took THEN ArrowSteps(rnd, selector, done) ELSE rnd,
          ui |-> IF selector = "next" THEN [dropUI EXCEPT !.next = done]
                                      ELSE [dropUI EXCEPT !.prev = done],
          via |-> "arrows", current |-> current]

NoScrape == [mid |-> 0, out |-> "none", tab |-> 0, got |-> FALSE]

NoRun == "none"

NoCall == [op |-> "none", target |-> 0, season |-> NoSeason, ok |-> FALSE,
           ui |-> NoUI, via |-> "none", current |-> None, before |-> 0,
           again |-> FALSE]

\* The locals of scrape_match's try block before any extractor has returned;
\* the three statistics lists start empty (line 586-590).
NoFields ==
    [date_time_info |-> "unset",
     teams |-> [home_team |-> "unset", away_team |-> "unset"],
     venue |-> [name |-> "unset", location |-> "unset"],
     referee |-> "unset",
     odds |-> "unset",
     crowd_voting |-> "unset",
     statistics |-> [overall |-> <<>>, first_half |-> <<>>,
                     second_half |-> <<>>]]

StatViews == {"overall", "first_half", "second_half"}
NoView == [attempts |-> 0, clicked |-> FALSE, waited |-> FALSE, read |-> FALSE,
           rows |-> 0]
NoException == [type |-> "none", in |-> "none"]
NoResult == [keys |-> {}, matchday |-> 0, fields |-> NoFields]

\* No scrape_match call is being looked into.
ExtractIdle ==
    /\ xpc = "idle"
    /\ fields = NoFields
    /\ xexc = NoException
    /\ result = NoResult
    /\ missed = {}
    /\ transient = {}
    /\ statsLog = [v \in StatViews |-> NoView]

\* What extract_total_votes is given and gives: a text is 'Total votes: '
\* (label) followed by the decimal tenths/10 and a suffix; a value is the
\* number it stands for, in tenths.
NoText == [label |-> FALSE, tenths |-> 0, suffix |-> ""]
NotFound == [found |-> FALSE, type |-> "str", tenths |-> 0]
NoVotes == [scraper |-> NotFound, config |-> NotFound]

\* safe_click is not being called.  i: iterations of the loop begun; native,
\* fallback: elt.click() and JavaScript click calls made; last: how the last
\* iteration ended; result: "none" while the call runs.
NoClick == [retries |-> 0, i |-> 0, native |-> 0, fallback |-> 0,
            last |-> "none", result |-> "none"]

\* No helper is being called on its own.
HelperIdle ==
    /\ hpc = "idle"
    /\ link_elems = <<>>
    /\ match_links = <<>>
    /\ vote_text = NoText
    /\ total_votes = NoVotes
    /\ click = NoClick

----------------------------------------------------------------------------
\* The navigation harness: any sequence of select_season / navigate_to_round
\* calls on any page.

InitNav ==
    /\ displayedSeason \in Seasons \cup {NoSeason}
    /\ round \in Rounds
    /\ labelOK \in BOOLEAN
    /\ lastNav = NoCall
    /\ calls = 0
    /\ site = [r \in Rounds |-> Unknown]
    /\ start_matchday = 1
    /\ end_matchday = 0
    /\ session = "live"
    /\ windows = {0}
    /\ focus = 0
    /\ pc = "harness"
    /\ md = 0
    /\ links = <<>>
    /\ li = 0
    /\ all_match_data = <<>>
    /\ scraped_ids = {}
    /\ disk = <<>>
    /\ run = 1
    /\ prevRun = NoRun
    /\ loaded = <<>>
    /\ scrapes = 0
    /\ lastScrape = NoScrape
    /\ saves = 0
    /\ exit = "none"
    /\ ExtractIdle
    /\ HelperIdle

CallSelectSeason ==
    /\ pc = "harness"
    /\ calls < MaxCalls
    /\ \E season \in Seasons, e \in NavEnv :
          LET r == select_season(season, displayedSeason, e) IN
          /\ displayedSeason' = r.shown
          /\ lastNav' = [NoCall EXCEPT !.op = "season", !.season = season,
                                       !.ok = r.ok, !.ui = r.ui, !.via = r.via]
    /\ calls' = calls + 1
    /\ UNCHANGED <<extractVars, helperVars>>
    /\ UNCHANGED <<round, labelOK, inputVars, browserVars, mainVars, obsVars>>

CallNavigateToRound ==
    /\ pc = "harness"
    /\ calls < MaxCalls
    /\ \E target \in Rounds, e \in NavEnv :
          LET r == navigate_to_round(target, round, labelOK, e) IN
          /\ round' = r.round
          /\ lastNav' = [NoCall EXCEPT !.op = "round", !.target = target,
                                       !.ok = r.ok, !.ui = r.ui, !.via = r.via,
                                       !.current = r.current, !.before = round,
                                       !.again = /\ lastNav.op = "round"
                                                 /\ lastNav.target = target
                                                 /\ lastNav.ok]
    /\ calls' = calls + 1
    /\ UNCHANGED <<extractVars, helperVars>>
    /\ UNCHANGED <<displayedSeason, labelOK, inputVars, browserVars, mainVars,
                   obsVars>>

NextNav == CallSelectSeason \/ CallNavigateToRound

SpecNav == InitNav /\ [][NextNav]_vars

----------------------------------------------------------------------------
\* Records and the durable store (epl_scraper.persistence is not part of the
\* sources: load_data returns the stored array, an absent file being the empty
\* store, and save_data rewrites the whole array).

\* The link lists a round can show: none, one, two different ids in either
\* order, the same id twice.
LinkLists == {<<>>, <<111>>, <<111, 222>>, <<222, 111>>, <<222, 222>>}

Rec(mid, matchday) == [match_id |-> mid, matchday |-> matchday]
IdsOf(store) == {store[i].match_id : i \in 1..Len(store)}
UniqueIds(store) ==
    \A i, j \in 1..Len(store) : store[i].match_id = store[j].match_id => i = j

load_data(stored) == stored
save_data(data) == data

\* The stores a run can find on disk; the last one holds an id twice.
InitialStores ==
    {<<>>, <<Rec(111, 1)>>, <<Rec(111, 1), Rec(222, 1)>>,
     <<Rec(111, 1), Rec(111, 1)>>}

----------------------------------------------------------------------------
\* scrape_match (src/scraper.py): a tab per match.

\* The keys of the dict scrape_match builds; the empty dict has none.
FieldKeys == {"matchday", "date_time_info", "teams", "venue", "referee",
              "odds", "crowd_voting", "statistics"}
EmptyData == [keys |-> {}, matchday |-> 0]
Truthy(data) == data.keys # {}

\* What happens inside the try block of one scrape_match call.
ScrapeOutcomes == {"ok", "open_fail", "switch_fail", "get_fail",
                   "extract_fail", "interrupt"}

\* The try block up to the point it completes or raises: the windows, the
\* focus and the exception.  A driver command sent while the focused window
\* is closed raises NoSuchWindowException, a WebDriverException.
ScrapeTry(out, W, f, tab) ==
    IF f \notin W \/ out = "open_fail"
    THEN [windows |-> W, focus |-> f, exc |-> "WebDriverException",
          opened |-> FALSE]
    ELSE IF out = "switch_fail"
    THEN [windows |-> W \cup {tab}, focus |-> f, exc |-> "WebDriverException",
          opened |-> TRUE]
    ELSE [windows |-> W \cup {tab}, focus |-> tab, opened |-> TRUE,
          exc |-> CASE out = "get_fail" -> "WebDriverException"
                    [] out = "extract_fail" -> "Exception"
                    [] out = "interrupt" -> "KeyboardInterrupt"
                    [] OTHER -> "none"]

\* Mutant: a handler that keeps a partly filled dict.
ScrapeDataPartial(exc, matchday) ==
    IF exc = "none" THEN [keys |-> FieldKeys, matchday |-> matchday]
    ELSE [keys |-> {"matchday"}, matchday |-> matchday]

\* The except clauses: the dict the call is left with.
ScrapeData(exc, matchday) ==
    IF exc = "none" THEN [keys |-> FieldKeys, matchday |-> matchday]
    ELSE EmptyData

\* Mutant: a cleanup that switches back without closing.
ScrapeCleanupNoClose(sess, W, f, original_tab) ==
    [windows |-> W, focus |-> IF original_tab \in W THEN original_tab ELSE f]

\* The finally clause: driver.close() closes the focused window, then
\* switch_to.window(original_tab); an exception of either is swallowed.
ScrapeCleanup(sess, W, f, original_tab) ==
    IF sess = "live" /\ W # {}
    THEN IF f \in W
         THEN [windows |-> W \ {f},
               focus |-> IF original_tab \in W \ {f} THEN original_tab ELSE f]
         ELSE [windows |-> W, focus |-> f]
    ELSE [windows |-> W, focus |-> f]

\* The handle of the tab window.open('') adds (window_handles[-1]).
NewTab(W, f) == CHOOSE h \in 1..(Cardinality(W) + 2) : h \notin W /\ h # f

scrape_match(matchday, out, sess, W, f, original_tab, tab) ==
    LET t == ScrapeTry(out, W, f, tab)
        c == ScrapeCleanup(sess, t.windows, t.focus, original_tab)
    IN [data |-> ScrapeData(t.exc, matchday),
        raised |-> t.exc = "KeyboardInterrupt",
        exc |-> t.exc,
        opened |-> t.opened,
        windows |-> c.windows,
        focus |-> c.focus]

----------------------------------------------------------------------------
\* main (src/runner.py).

DefaultSeason == "24/25"
OriginalTab == 0

\* Mutant: no link is skipped.
AlreadyScrapedNever(mid, ids) == FALSE

AlreadyScraped(mid, ids) == mid \in ids

\* Mutant: only the new record is written.
RecordMatchOnlyNew(data, mid, list, ids, file, n) ==
    LET grown == Append(list, Rec(mid, data.matchday)) IN
    [list |-> grown, file |-> save_data(<<Rec(mid, data.matchday)>>),
     ids |-> ids \cup {mid}, saves |-> n + 1]

\* Mutant: the record is appended and never saved.
RecordMatchNoSave(data, mid, list, ids, file, n) ==
    [list |-> Append(list, Rec(mid, data.matchday)), file |-> file,
     ids |-> ids \cup {mid}, saves |-> n]

\* Mutant: the record is appended and saved, its id is not added to the set.
RecordMatchNoId(data, mid, list, ids, file, n) ==
    LET grown == Append(list, Rec(mid, data.matchday)) IN
    [list |-> grown, file |-> save_data(grown), ids |-> ids, saves |-> n + 1]

\* Lines 55-60: what a non-empty result does to the list, the file and the set.
RecordMatch(data, mid, list, ids, file, n) ==
    LET grown == Append(list, Rec(mid, data.matchday)) IN
    [list |-> grown, file |-> save_data(grown), ids |-> ids \cup {mid},
     saves |-> n + 1]

Init ==
    /\ displayedSeason \in Seasons
    /\ round \in Rounds
    /\ labelOK \in BOOLEAN
    /\ lastNav = NoCall
    /\ calls = 0
    /\ site = [r \in Rounds |-> Unknown]
    /\ start_matchday \in 1..MaxMatchday
    /\ end_matchday \in 1..MaxMatchday
    /\ session = "none"
    /\ windows = {}
    /\ focus = OriginalTab
    /\ pc = "setup"
    /\ md = 0
    /\ links = <<>>
    /\ li = 0
    /\ disk \in InitialStores
    /\ all_match_data = load_data(disk)
    /\ scraped_ids = {}
    /\ run = 1
    /\ prevRun = NoRun
    /\ loaded = disk
    /\ scrapes = 0
    /\ lastScrape = NoScrape
    /\ saves = 0
    /\ exit = "none"
    /\ ExtractIdle
    /\ HelperIdle

\* Lines 18-20: setup_driver, driver.get(base_url), dismiss_cookies.
MainSetup ==
    /\ pc = "setup"
    /\ \E started \in BOOLEAN, got \in BOOLEAN :
          /\ session' = IF started THEN "live" ELSE "none"
          /\ windows' = IF started THEN {OriginalTab} ELSE {}
          /\ IF started /\ got
             THEN pc' = "season" /\ exit' = exit
             ELSE pc' = "quit" /\ exit' = "error"
    /\ focus' = OriginalTab
    /\ UNCHANGED <<extractVars, helperVars>>
    /\ UNCHANGED <<pageVars, navVars, inputVars, md, links, li,
                   all_match_data, scraped_ids, disk, run, prevRun, loaded, scrapes,
                   lastScrape, saves>>

\* Lines 22-27.
MainSelectSeason ==
    /\ pc = "season"
    /\ \E e \in NavEnv :
          LET r == select_season(DefaultSeason, displayedSeason, e) IN
          /\ displayedSeason' = r.shown
          /\ IF r.ok
             THEN /\ scraped_ids' = IdsOf(all_match_data)
                  /\ md' = start_matchday
                  /\ pc' = "round"
                  /\ exit' = exit
             ELSE /\ pc' = "quit"
                  /\ exit' = "season_failed"
                  /\ UNCHANGED <<scraped_ids, md>>
    /\ UNCHANGED <<extractVars, helperVars>>
    /\ UNCHANGED <<round, labelOK, navVars, inputVars, browserVars, links, li,
                   all_match_data, disk, run, prevRun, loaded, scrapes, lastScrape,
                   saves>>

\* Line 29, the range is exhausted.
MainFinish ==
    /\ pc = "round"
    /\ md > end_matchday
    /\ pc' = "quit"
    /\ exit' = "normal"
    /\ UNCHANGED <<extractVars, helperVars>>
    /\ UNCHANGED <<pageVars, navVars, inputVars, browserVars, md, links, li,
                   all_match_data, scraped_ids, disk, run, prevRun, loaded, scrapes,
                   lastScrape, saves>>

\* Lines 29-33.  With the shared tab closed every driver command raises
\* NoSuchWindowException, which only the outer handler of main catches.
MainNavigate ==
    /\ pc = "round"
    /\ md <= end_matchday
    /\ IF focus \notin windows
       THEN /\ pc' = "quit"
            /\ exit' = "error"
            /\ UNCHANGED <<round, md>>
       ELSE \E e \in NavEnv :
              LET r == navigate_to_round(md, round, labelOK, e) IN
              /\ round' = r.round
              /\ exit' = exit
              /\ IF r.ok
                 THEN pc' = "links" /\ md' = md
                 ELSE pc' = "round" /\ md' = md + 1
    /\ UNCHANGED <<extractVars, helperVars>>
    /\ UNCHANGED <<displayedSeason, labelOK, navVars, inputVars, browserVars,
                   links, li, all_match_data, scraped_ids, disk, run, prevRun, loaded,
                   scrapes, lastScrape, saves>>

\* Lines 35-36: the links of the round the page shows.
MainGetLinks ==
    /\ pc = "links"
    /\ \E found \in LinkLists :
          /\ site[round] \in {Unknown, found}
          /\ site' = [site EXCEPT ![round] = found]
          /\ links' = found
    /\ prevRun' = IF site[round] = Unknown THEN "other" ELSE prevRun
    /\ li' = 1
    /\ pc' = "match"
    /\ UNCHANGED <<extractVars, helperVars>>
    /\ UNCHANGED <<pageVars, navVars, start_matchday, end_matchday,
                   browserVars, md, all_match_data, scraped_ids, disk, run,
                   loaded, scrapes, lastScrape, saves, exit>>

\* Lines 38-42.
MainSkip ==
    /\ pc = "match"
    /\ li <= Len(links)
    /\ AlreadyScraped(links[li], scraped_ids)
    /\ li' = li + 1
    /\ UNCHANGED <<extractVars, helperVars>>
    /\ UNCHANGED <<pageVars, navVars, inputVars, browserVars, pc, md, links,
                   all_match_data, scraped_ids, disk, obsVars>>

\* Lines 44-64.
MainScrape ==
    /\ pc = "match"
    /\ li <= Len(links)
    /\ ~AlreadyScraped(links[li], scraped_ids)
    /\ \E out \in ScrapeOutcomes :
          LET mid == links[li]
              r == scrape_match(md, out, session, windows, focus, OriginalTab,
                                NewTab(windows, focus))
              kept == RecordMatch(r.data, mid, all_match_data, scraped_ids,
                                  disk, saves)
          IN
          /\ out = "open_fail" \/ focus \in windows
          /\ windows' = r.windows
          /\ focus' = r.focus
          /\ scrapes' = scrapes + 1
          /\ lastScrape' = [mid |-> mid, out |-> out, tab |-> NewTab(windows, focus),
                            got |-> Truthy(r.data)]
          /\ IF r.raised
             THEN /\ pc' = "quit"
                  /\ exit' = "interrupted"
                  /\ UNCHANGED <<li, all_match_data, scraped_ids, disk, saves>>
             ELSE /\ pc' = "match"
                  /\ exit' = exit
                  /\ li' = li + 1
                  /\ IF Truthy(r.data)
                     THEN /\ all_match_data' = kept.list
                          /\ disk' = kept.file
                          /\ scraped_ids' = kept.ids
                          /\ saves' = kept.saves
                     ELSE UNCHANGED <<all_match_data, scraped_ids, disk, saves>>
    /\ UNCHANGED <<extractVars, helperVars>>
    /\ UNCHANGED <<pageVars, navVars, inputVars, session, md, links, run,
                   prevRun, loaded>>

\* Mutant: the loop over the matchdays does not advance.
MainNextMatchdayRepeat ==
    /\ pc = "match"
    /\ li > Len(links)
    /\ md' = md
    /\ pc' = "round"
    /\ UNCHANGED <<extractVars, helperVars>>
    /\ UNCHANGED <<pageVars, navVars, inputVars, browserVars, links, li,
                   all_match_data, scraped_ids, disk, obsVars>>

\* Line 38, the links of the round are exhausted: on to the next matchday.
MainNextMatchday ==
    /\ pc = "match"
    /\ li > Len(links)
    /\ md' = md + 1
    /\ pc' = "round"
    /\ UNCHANGED <<extractVars, helperVars>>
    /\ UNCHANGED <<pageVars, navVars, inputVars, browserVars, links, li,
                   all_match_data, scraped_ids, disk, obsVars>>

\* Mutant: main leaves without scraper.quit().
MainQuitNoTeardown ==
    /\ pc = "quit"
    /\ pc' = "done"
    /\ UNCHANGED <<extractVars, helperVars>>
    /\ UNCHANGED <<pageVars, navVars, inputVars, browserVars, md, links, li,
                   all_match_data, scraped_ids, disk, obsVars>>

\* Lines 70-72 and scraper.quit.
MainQuit ==
    /\ pc = "quit"
    /\ IF session = "live"
       THEN session' = "quit" /\ windows' = {}
       ELSE UNCHANGED <<session, windows>>
    /\ pc' = "done"
    /\ UNCHANGED <<extractVars, helperVars>>
    /\ UNCHANGED <<pageVars, navVars, inputVars, focus, md, links, li,
                   all_match_data, scraped_ids, disk, obsVars>>

\* The program is started again: a new scraper object loads the store, a new
\* browser opens the landing page, the remote site lists the same links.
Rerun ==
    /\ pc = "done"
    /\ run < MaxRuns
    /\ run' = run + 1
    /\ prevRun' = IF exit = "normal" THEN "same" ELSE "other"
    /\ pc' = "setup"
    /\ all_match_data' = load_data(disk)
    /\ loaded' = disk
    /\ scraped_ids' = {}
    /\ md' = 0
    /\ links' = <<>>
    /\ li' = 0
    /\ session' = "none"
    /\ windows' = {}
    /\ focus' = OriginalTab
    /\ scrapes' = 0
    /\ lastScrape' = NoScrape
    /\ saves' = 0
    /\ exit' = "none"
    /\ displayedSeason' = DefaultSeason
    /\ round' = 1
    /\ labelOK' = TRUE
    /\ UNCHANGED <<extractVars, helperVars>>
    /\ UNCHANGED <<navVars, inputVars, disk>>

Next ==
    \/ MainSetup
    \/ MainSelectSeason
    \/ MainFinish
    \/ MainNavigate
    \/ MainGetLinks
    \/ MainSkip
    \/ MainScrape
    \/ MainNextMatchday
    \/ MainQuit

Spec == Init /\ [][Next]_vars

\* Main run again on the store the run before left.
NextRerun == Next \/ Rerun

\* The first run starts on the landing page with a store that has no two
\* records of one match.
InitRerun ==
    /\ Init
    /\ displayedSeason = DefaultSeason
    /\ round = 1
    /\ labelOK
    /\ Cardinality(IdsOf(disk)) = Len(disk)

SpecRerun == InitRerun /\ [][NextRerun]_vars

----------------------------------------------------------------------------
\* The field extractors (src/scraper.py lines 293-610), each a function of
\* what the match page answers to its lookups.  An element that was found
\* may have gone stale when it is read: StaleElementReferenceException, a
\* WebDriverException.

Stale == "StaleElementReferenceException"

Returned(v) == [raised |-> FALSE, value |-> v]
Raised(v) == [raised |-> TRUE, value |-> v]

\* utils.parse_datetime_from_text is not part of the sources: it gives the
\* date parsed from the page text, or nothing.
parse_datetime_from_text(text) == IF text = "dated" THEN <<"body_text">> ELSE <<>>

\* container: the date/time container is missing, has too few spans or lines
\* ("short"), has the two lines, or went stale while its spans were read.
DateTimeEnv == [container : {"two_lines", "short", "missing", "stale"},
                body : {"dated", "undated"}]

\* Mutant: the fallback raises when the page text holds no date.
GetDateTimeRaises(e) ==
    IF e.container = "stale" THEN Raised("unset")
    ELSE IF e.container = "two_lines" THEN Returned("container")
    ELSE IF parse_datetime_from_text(e.body) # <<>>
         THEN Returned(parse_datetime_from_text(e.body)[1])
         ELSE Raised("unset")

_get_date_time(e) ==
    IF e.container = "stale" THEN Raised("unset")
    ELSE IF e.container = "two_lines" THEN Returned("container")
    ELSE LET parsed == parse_datetime_from_text(e.body) IN
         Returned(IF parsed # <<>> THEN parsed[1] ELSE "Not found")

TeamsEnv == [imgs : 0..2, stale : BOOLEAN]

_get_teams(e) ==
    IF e.imgs > 0 /\ e.stale THEN Raised(NoFields.teams)
    ELSE Returned([home_team |-> IF e.imgs > 0 THEN "alt" ELSE "N/A",
                   away_team |-> IF e.imgs > 1 THEN "alt" ELSE "N/A"])

\* labelled / location: the span after the 'Name' / 'Location' label of the
\* venue block; fallback: the first span with 'Stadium', 'Arena' or 'Ground'.
\* A "blank" span has only white space as text.
VenueEnv == [labelled : {"absent", "name", "blank"},
             location : {"absent", "name"},
             fallback : {"absent", "name", "blank"},
             stale : BOOLEAN]

SpanText(span, text) ==
    CASE span = "name" -> text
      [] span = "blank" -> ""
      [] OTHER -> "N/A"

_get_venue(e) ==
    LET labelled == SpanText(e.labelled, "labelled")
        location == SpanText(e.location, "labelled")
        name == IF labelled = "N/A" THEN SpanText(e.fallback, "fallback")
                ELSE labelled
    IN IF e.stale THEN Returned([name |-> "N/A", location |-> "N/A"])
       ELSE Returned([name |-> name, location |-> location])

RefereeEnv == [referee : BOOLEAN, stale : BOOLEAN]

_get_referee(e) ==
    Returned(IF e.referee /\ ~e.stale THEN "referee" ELSE "N/A")

OddsEnv == [elems : {0, 3}, stale : BOOLEAN]

_get_odds(e) ==
    IF e.elems >= 3 /\ e.stale THEN Raised("unset")
    ELSE Returned(IF e.elems >= 3 THEN "odds" ELSE "N/A")

CrowdEnv == [section : BOOLEAN, stale : BOOLEAN]

_get_crowd_voting(e) ==
    Returned(IF e.section /\ ~e.stale THEN "votes" ELSE "N/A")

\* Statistics: a view is the sequence of its rows.
MinRows == 10
MaxAttempts == 3
Rows(n) == [i \in 1..n |-> "row"]

\* rows: the stat rows on the page; stale: the stats container went stale
\* before _scroll_container scrolled it.
StatsEnv == [rows : {0, 10}, stale : BOOLEAN]

_extract_stats_view(e) ==
    IF e.stale THEN Raised(<<>>) ELSE Returned(Rows(e.rows))

\* Mutant: the poll accepts any number of rows.
WaitForAnyRows(rows) == TRUE

wait_for_stat_rows(rows) == rows >= MinRows

\* One attempt of extract_with_retries: tab is "the tab is found and
\* safe_click returns True", rows the most rows the poll sees before it
\* times out (the poll does not run when the tab was not clicked).
AttemptEnv == {a \in [tab : BOOLEAN, rows : {0, 9, 10}] : a.tab <=> a.rows > 0}
HalfEnv == [attempts : [1..MaxAttempts -> AttemptEnv], stale : BOOLEAN]

ViewLog(n, e, waited, read) ==
    [attempts |-> n,
     clicked |-> \E j \in 1..n : e.attempts[j].tab,
     waited |-> waited, read |-> read,
     rows |-> IF waited THEN e.attempts[n].rows ELSE 0]

RECURSIVE ExtractWithRetriesRaises(_, _)
\* Mutant: the view raises when its last attempt has failed.
ExtractWithRetriesRaises(e, i) ==
    IF i > MaxAttempts
    THEN [raised |-> TRUE, value |-> <<>>,
          log |-> ViewLog(MaxAttempts, e, FALSE, FALSE)]
    ELSE IF e.attempts[i].tab /\ wait_for_stat_rows(e.attempts[i].rows)
    THEN LET r == _extract_stats_view([rows |-> e.attempts[i].rows,
                                       stale |-> e.stale])
         IN [raised |-> r.raised, value |-> r.value,
             log |-> ViewLog(i, e, TRUE, TRUE)]
    ELSE ExtractWithRetriesRaises(e, i + 1)

RECURSIVE extract_with_retries(_, _)
\* Lines 595-604, from attempt i on.
extract_with_retries(e, i) ==
    IF i > MaxAttempts
    THEN [raised |-> FALSE, value |-> <<>>,
          log |-> ViewLog(MaxAttempts, e, FALSE, FALSE)]
    ELSE IF e.attempts[i].tab /\ wait_for_stat_rows(e.attempts[i].rows)
    THEN LET r == _extract_stats_view([rows |-> e.attempts[i].rows,
                                       stale |-> e.stale])
         IN [raised |-> r.raised, value |-> r.value,
             log |-> ViewLog(i, e, TRUE, TRUE)]
    ELSE extract_with_retries(e, i + 1)

----------------------------------------------------------------------------
\* One scrape_match call from the page load on (lines 250-290): the dict
\* literal calls the extractors in the order it lists them.

InitExtract ==
    /\ displayedSeason = DefaultSeason
    /\ round = 1
    /\ labelOK = TRUE
    /\ lastNav = NoCall
    /\ calls = 0
    /\ site = [r \in Rounds |-> IF r = 1 THEN <<111>> ELSE Unknown]
    /\ start_matchday = 1
    /\ end_matchday = 1
    /\ session = "live"
    /\ windows = {OriginalTab, NewTab({OriginalTab}, OriginalTab)}
    /\ focus = NewTab({OriginalTab}, OriginalTab)
    /\ pc = "scrape"
    /\ md = 1
    /\ links = <<111>>
    /\ li = 1
    /\ disk = <<>>
    /\ all_match_data = load_data(disk)
    /\ scraped_ids = {}
    /\ run = 1
    /\ prevRun = NoRun
    /\ loaded = disk
    /\ scrapes = 0
    /\ lastScrape = NoScrape
    /\ saves = 0
    /\ exit = "none"
    /\ xpc = "date_time_info"
    /\ fields = NoFields
    /\ xexc = NoException
    /\ result = NoResult
    /\ missed = {}
    /\ transient = {}
    /\ statsLog = [v \in StatViews |-> NoView]
    /\ HelperIdle

\* What one extractor call leaves: its value, the extractor called next (or
\* the except clause), and whether all lookups missed or an element was stale.
Extracted(name, next, r, allMissing, wentStale) ==
    /\ fields' = [fields EXCEPT ![name] = r.value]
    /\ xexc' = IF r.raised THEN [type |-> Stale, in |-> name] ELSE xexc
    /\ xpc' = IF r.raised THEN "except" ELSE next
    /\ missed' = IF allMissing THEN missed \cup {name} ELSE missed
    /\ transient' = IF wentStale THEN transient \cup {name} ELSE transient
    /\ UNCHANGED <<crawlVars, helperVars, result, statsLog>>

ExtractDateTime ==
    /\ xpc = "date_time_info"
    /\ \E e \in DateTimeEnv :
        Extracted("date_time_info", "teams", _get_date_time(e),
                  e.container = "missing" /\ e.body = "undated",
                  e.container = "stale")

ExtractTeams ==
    /\ xpc = "teams"
    /\ \E e \in TeamsEnv :
        Extracted("teams", "venue", _get_teams(e),
                  e.imgs = 0, e.imgs > 0 /\ e.stale)

ExtractVenue ==
    /\ xpc = "venue"
    /\ \E e \in VenueEnv :
        Extracted("venue", "referee", _get_venue(e),
                  /\ e.labelled = "absent" /\ e.location = "absent"
                  /\ e.fallback = "absent" /\ ~e.stale,
                  e.stale)

ExtractReferee ==
    /\ xpc = "referee"
    /\ \E e \in RefereeEnv :
        Extracted("referee", "odds", _get_referee(e),
                  ~e.referee /\ ~e.stale, e.stale)

ExtractOdds ==
    /\ xpc = "odds"
    /\ \E e \in OddsEnv :
        Extracted("odds", "crowd_voting", _get_odds(e),
                  e.elems = 0, e.elems >= 3 /\ e.stale)

ExtractCrowdVoting ==
    /\ xpc = "crowd_voting"
    /\ \E e \in CrowdEnv :
        Extracted("crowd_voting", "overall", _get_crowd_voting(e),
                  ~e.section /\ ~e.stale, e.stale)

\* One view of _get_stats: its rows, its log, the view read next.
ViewExtracted(view, next, r, log) ==
    /\ fields' = [fields EXCEPT !.statistics[view] = r.value]
    /\ statsLog' = [statsLog EXCEPT ![view] = log]
    /\ xexc' = IF r.raised THEN [type |-> Stale, in |-> "statistics"]
               ELSE xexc
    /\ xpc' = IF r.raised THEN "except" ELSE next
    /\ transient' = IF r.raised THEN transient \cup {"statistics"}
                    ELSE transient
    /\ UNCHANGED <<crawlVars, helperVars, result, missed>>

\* Line 593.
ExtractStatsOverall ==
    /\ xpc = "overall"
    /\ \E e \in StatsEnv :
        ViewExtracted("overall", "first_half", _extract_stats_view(e),
                      [attempts |-> 1, clicked |-> FALSE, waited |-> FALSE,
                       read |-> TRUE, rows |-> 0])

\* Lines 606-607.
ExtractStatsHalf ==
    /\ xpc \in {"first_half", "second_half"}
    /\ \E e \in HalfEnv :
          LET r == extract_with_retries(e, 1) IN
          ViewExtracted(xpc, IF xpc = "first_half" THEN "second_half"
                             ELSE "return", r, r.log)

\* Lines 262-290: the dict is assigned, or an except clause empties it; the
\* finally clause closes the tab and switches back.
ScrapeReturn ==
    /\ xpc \in {"return", "except"}
    /\ LET d == ScrapeData(xexc.type, md)
           c == ScrapeCleanup(session, windows, focus, OriginalTab)
       IN /\ result' = [keys |-> d.keys, matchday |-> d.matchday,
                        fields |-> IF xexc.type = "none" THEN fields
                                   ELSE NoFields]
          /\ windows' = c.windows
          /\ focus' = c.focus
    /\ xpc' = "done"
    /\ UNCHANGED <<pageVars, navVars, inputVars, session, mainVars, obsVars,
                   helperVars, fields, xexc, missed, transient, statsLog>>

NextExtract ==
    \/ ExtractDateTime
    \/ ExtractTeams
    \/ ExtractVenue
    \/ ExtractReferee
    \/ ExtractOdds
    \/ ExtractCrowdVoting
    \/ ExtractStatsOverall
    \/ ExtractStatsHalf
    \/ ScrapeReturn

SpecExtract == InitExtract /\ [][NextExtract]_vars

----------------------------------------------------------------------------
\* get_match_links (src/scraper.py lines 219-231).  An href is the sequence
\* of its pieces: the origin, "/", path segments, "#id:", digits.

Origin == "https://www.sofascore.com"
Digits == {"1", "2"}
MatchPath == <<"/", "football", "/", "match", "/">>

\* Elements the selector matches in one round, at most.
MaxElems == 2

\* An element: whether it has an href, and the href's make-up.
LinkElems ==
    {c \in [href : BOOLEAN, absolute : BOOLEAN, sport : {"football", "tennis"},
            slash : BOOLEAN, id : BOOLEAN] :
        ~c.href => (~c.absolute /\ c.sport = "tennis" /\ ~c.slash /\ ~c.id)}

\* The path and fragment of an element's link.
PathOf(c) ==
    <<"/", c.sport, "/", "match", "/", "slug", "/", "KsR">>
        \o (IF c.slash THEN <<"/">> ELSE <<>>)
        \o (IF c.id THEN <<"#id:", "1", "2">> ELSE <<>>)

\* e.get_attribute('href') or ''
HrefOf(c) ==
    IF ~c.href THEN <<>>
    ELSE (IF c.absolute THEN <<Origin>> ELSE <<>>) \o PathOf(c)

\* pat in href
Contains(href, pat) ==
    \E i \in 1..(Len(href) - Len(pat) + 1) :
        SubSeq(href, i, i + Len(pat) - 1) = pat

\* href.startswith('http')
StartsWithHttp(href) == Len(href) > 0 /\ href[1] = Origin

\* re.search(r'#id:(\d+)', href): the places where the pattern matches.
IdMatches(href) ==
    {i \in 1..(Len(href) - 1) : href[i] = "#id:" /\ href[i + 1] \in Digits}

\* group(1) of the leftmost match: the longest run of digits after it.
IdGroup(href) ==
    LET i == CHOOSE k \in IdMatches(href) : \A m \in IdMatches(href) : k <= m
        j == CHOOSE k \in (i + 1)..Len(href) :
                 /\ \A m \in (i + 1)..k : href[m] \in Digits
                 /\ (k = Len(href) \/ href[k + 1] \notin Digits)
    IN SubSeq(href, i + 1, j)

RECURSIVE RStripSlash(_)
\* href.rstrip('/')
RStripSlash(href) ==
    IF href # <<>> /\ href[Len(href)] = "/"
    THEN RStripSlash(SubSeq(href, 1, Len(href) - 1))
    ELSE href

\* href.split('/')[-1]
LastPiece(href) ==
    LET slashes == {i \in 1..Len(href) : href[i] = "/"}
        from == IF slashes = {} THEN 0
                ELSE CHOOSE i \in slashes : \A k \in slashes : k <= i
    IN SubSeq(href, from + 1, Len(href))

\* Lines 226-229 for one href.
LinkOf(href) ==
    [url |-> IF StartsWithHttp(href) THEN href ELSE <<Origin>> \o href,
     match_id |-> IF IdMatches(href) # {} THEN IdGroup(href)
                  ELSE LastPiece(RStripSlash(href))]

\* Mutant: no href is left out.
KeepsEveryHref(href) == TRUE

\* Line 225.
IsMatchHref(href) == Contains(href, MatchPath)

RECURSIVE get_match_links(_)
get_match_links(elems) ==
    IF elems = <<>> THEN <<>>
    ELSE LET href == HrefOf(Head(elems)) IN
         (IF IsMatchHref(href) THEN <<LinkOf(href)>> ELSE <<>>)
             \o get_match_links(Tail(elems))

ElemLists ==
    UNION {[1..n -> LinkElems] : n \in 0..MaxElems}

\* Every variable of the crawl and of scrape_match at rest.
AtRest ==
    /\ displayedSeason = DefaultSeason
    /\ round = 1
    /\ labelOK = TRUE
    /\ lastNav = NoCall
    /\ calls = 0
    /\ site = [r \in Rounds |-> Unknown]
    /\ start_matchday = 1
    /\ end_matchday = 1
    /\ session = "live"
    /\ windows = {OriginalTab}
    /\ focus = OriginalTab
    /\ pc = "helper"
    /\ md = 1
    /\ links = <<>>
    /\ li = 0
    /\ disk = <<>>
    /\ all_match_data = load_data(disk)
    /\ scraped_ids = {}
    /\ run = 1
    /\ prevRun = NoRun
    /\ loaded = disk
    /\ scrapes = 0
    /\ lastScrape = NoScrape
    /\ saves = 0
    /\ exit = "none"
    /\ ExtractIdle

InitLinks ==
    /\ AtRest
    /\ hpc = "ready"
    /\ link_elems \in ElemLists
    /\ match_links = <<>>
    /\ vote_text = NoText
    /\ total_votes = NoVotes
    /\ click = NoClick

CallGetMatchLinks ==
    /\ hpc = "ready"
    /\ match_links' = get_match_links(link_elems)
    /\ hpc' = "done"
    /\ UNCHANGED <<crawlVars, extractVars, link_elems, vote_text, total_votes, click>>

NextLinks == CallGetMatchLinks

SpecLinks == InitLinks /\ [][NextLinks]_vars

----------------------------------------------------------------------------
\* extract_total_votes (src/scraper.py lines 643-663) and
\* ScrapingConfig.extract_total_votes (src/config.py lines 186-202).
\* float() and the product are IEEE 754 doubles, int() truncates.

\* The decimals in the texts are 0.1, 0.2, ..., MaxTenths / 10.
MaxTenths == 1210
Suffixes == {"", "k", "K", "m", "M"}

RECURSIVE Pow2(_)
Pow2(n) == IF n = 0 THEN 1 ELSE 2 * Pow2(n - 1)

RECURSIVE Log2(_)
\* floor(log2(n)), n >= 1
Log2(n) == IF n < 2 THEN 0 ELSE 1 + Log2(n \div 2)

RECURSIVE Halvings(_)
\* -floor(log2(t / 10)) for 1 <= t < 10
Halvings(t) == IF t >= 10 THEN 0 ELSE 1 + Halvings(2 * t)

\* The binary exponent of the decimal t / 10.
ExponentOfTenths(t) == IF t >= 10 THEN Log2(t \div 10) ELSE -Halvings(t)

\* float(number) for the decimal t / 10: the nearest double.  With the
\* exponent p its last place is 2^(p - 52); the error, in tenths of that
\* place, follows from (t * 2^(52 - p)) mod 10, which is never 5.
FloatError(t) ==
    LET k == 52 - ExponentOfTenths(t)
        r == (t * (Pow2(((k - 1) % 4) + 1) % 10)) % 10
    IN IF r < 5 THEN -r ELSE 10 - r

\* int(float(number) * mult) for mult 1000 or 1000000 (t * mult / 10 is a
\* whole number n): the exact product is n + FloatError * (mult / 10) last
\* places of t / 10; it is rounded to the nearest double, whose last place
\* near n is 2^(Log2(n) - 52) < 1, and truncated.
IntOfProduct(t, mult) ==
    LET n == (t * mult) \div 10
        ratio == Pow2(Log2(n) - ExponentOfTenths(t))
        err == FloatError(t) * (mult \div 10)
    IN IF err < 0 /\ 2 * (-err) > ratio THEN n - 1 ELSE n

Multiplier(suffix) ==
    CASE suffix \in {"k", "K"} -> 1000
      [] suffix \in {"m", "M"} -> 1000000
      [] OTHER -> 1

\* scraper.py 650-663: the pattern is matched ignoring case; the value is a
\* string of digits, the matched number itself when there is no suffix.
extract_total_votes(text) ==
    IF ~text.label THEN NotFound
    ELSE IF Multiplier(text.suffix) = 1
    THEN [found |-> TRUE, type |-> "str", tenths |-> text.tenths]
    ELSE [found |-> TRUE, type |-> "str",
          tenths |-> 10 * IntOfProduct(text.tenths, Multiplier(text.suffix))]

\* config.py 190-202: an int, None when the pattern does not match.
ScrapingConfig_extract_total_votes(text) ==
    IF ~text.label THEN [NotFound EXCEPT !.type = "None"]
    ELSE IF Multiplier(text.suffix) = 1
    THEN [found |-> TRUE, type |-> "int",
          tenths |-> 10 * (text.tenths \div 10)]
    ELSE [found |-> TRUE, type |-> "int",
          tenths |-> 10 * IntOfProduct(text.tenths, Multiplier(text.suffix))]

InitVotes ==
    /\ AtRest
    /\ hpc = "ready"
    /\ link_elems = <<>>
    /\ match_links = <<>>
    /\ vote_text \in [label : BOOLEAN, tenths : 1..MaxTenths, suffix : Suffixes]
    /\ total_votes = NoVotes
    /\ click = NoClick

CallExtractTotalVotes ==
    /\ hpc = "ready"
    /\ total_votes' = [scraper |-> extract_total_votes(vote_text),
                       config |-> ScrapingConfig_extract_total_votes(vote_text)]
    /\ hpc' = "done"
    /\ UNCHANGED <<crawlVars, extractVars, link_elems, match_links, vote_text, click>>

NextVotes == CallExtractTotalVotes

SpecVotes == InitVotes /\ [][NextVotes]_vars

----------------------------------------------------------------------------
\* safe_click (src/scraper.py lines 107-128).

\* The largest retries argument.
MaxRetries == 3

\* What the driver answers in one iteration of the loop.
\*   scroll : execute_script(scrollIntoView)
\*   native : elt.click()
\*   js     : execute_script("arguments[0].click();")
\* "intercepted" and "stale" are ElementClickInterceptedException and
\* StaleElementReferenceException, "error" any other Exception, "interrupt"
\* a KeyboardInterrupt, which is not an Exception.
ClickEnv == [scroll : {"ok", "stale", "error", "interrupt"},
             native : {"ok", "intercepted", "stale", "error", "interrupt"},
             js : {"ok", "error", "interrupt"}]

\* How one iteration ends: "native_ok" and "js_ok" return True, "failed"
\* goes on with the loop, "interrupt" leaves the call with the exception.
\* native, fallback: whether elt.click() and the JavaScript click were called.
TryClick(a) ==
    LET caught == IF a.scroll = "ok" THEN a.native ELSE a.scroll
        clicked == a.scroll = "ok"
    IN CASE caught = "ok" ->
              [last |-> "native_ok", native |-> clicked, fallback |-> FALSE]
         [] caught \in {"intercepted", "stale"} ->
              [last |-> CASE a.js = "ok" -> "js_ok"
                          [] a.js = "error" -> "failed"
                          [] OTHER -> "interrupt",
               native |-> clicked, fallback |-> TRUE]
         [] caught = "error" ->
              [last |-> "failed", native |-> clicked, fallback |-> FALSE]
         [] OTHER ->
              [last |-> "interrupt", native |-> clicked, fallback |-> FALSE]

\* Mutant: a failed JavaScript click ends the call with False.
SafeClickGivesUpEarly(c, a) ==
    LET t == TryClick(a) IN
    [c EXCEPT !.i = c.i + 1,
              !.native = c.native + (IF t.native THEN 1 ELSE 0),
              !.fallback = c.fallback + (IF t.fallback THEN 1 ELSE 0),
              !.last = t.last,
              !.result = CASE t.last \in {"native_ok", "js_ok"} -> "True"
                           [] t.last = "interrupt" -> "KeyboardInterrupt"
                           [] t.fallback -> "False"
                           [] OTHER -> "none"]

\* One iteration of `for i in range(retries)`.
safe_click(c, a) ==
    LET t == TryClick(a) IN
    [c EXCEPT !.i = c.i + 1,
              !.native = c.native + (IF t.native THEN 1 ELSE 0),
              !.fallback = c.fallback + (IF t.fallback THEN 1 ELSE 0),
              !.last = t.last,
              !.result = CASE t.last \in {"native_ok", "js_ok"} -> "True"
                           [] t.last = "interrupt" -> "KeyboardInterrupt"
                           [] OTHER -> "none"]

InitClick ==
    /\ AtRest
    /\ hpc = "ready"
    /\ link_elems = <<>>
    /\ match_links = <<>>
    /\ vote_text = NoText
    /\ total_votes = NoVotes
    /\ \E retries \in 0..MaxRetries : click = [NoClick EXCEPT !.retries = retries]

\* Lines 108-126.
SafeClickIteration ==
    /\ hpc = "ready"
    /\ click.result = "none"
    /\ click.i < click.retries
    /\ \E a \in ClickEnv : click' = safe_click(click, a)
    /\ hpc' = IF click'.result = "none" THEN "ready" ELSE "done"
    /\ UNCHANGED <<crawlVars, extractVars, link_elems, match_links, vote_text,
                   total_votes>>

\* Lines 127-128: the range is exhausted.
SafeClickFailed ==
    /\ hpc = "ready"
    /\ click.result = "none"
    /\ click.i >= click.retries
    /\ click' = [click EXCEPT !.result = "False"]
    /\ hpc' = "done"
    /\ UNCHANGED <<crawlVars, extractVars, link_elems, match_links, vote_text,
                   total_votes>>

NextClick == SafeClickIteration \/ SafeClickFailed

\* The interpreter runs the loop on: no step of the call waits for ever.
SpecClick == InitClick /\ [][NextClick]_vars /\ WF_vars(NextClick)

----------------------------------------------------------------------------
\* Properties.

\* A step of main that called scrape_match, and the outcomes that raise a
\* non-cancellation exception inside it.
ScrapeStep == scrapes' = scrapes + 1
PageFailures == {"open_fail", "switch_fail", "get_fail", "extract_fail"}

\* The ids of the rounds whose links main has read.
KnownIds ==
    UNION {{site[r][i] : i \in 1..Len(site[r])} :
           r \in {q \in Rounds : site[q] # Unknown}}

\* C1 (as amended): when the loaded store holds no id twice, neither does any
\* list main hands to save_data; scrape_match is never called for a link
\* whose id is in the store; and a second run of main that finds only ids
\* the store already holds leaves the store as it was.
NoDuplicateIds ==
    /\ [](UniqueIds(loaded) => UniqueIds(all_match_data) /\ UniqueIds(disk))
    /\ [][ScrapeStep => lastScrape'.mid \notin IdsOf(all_match_data)]_vars
    /\ [](run >= 2 /\ KnownIds \subseteq IdsOf(loaded)
            => all_match_data = loaded /\ disk = loaded /\ saves = 0)

\* C1 as stated: a second run over the same match ids (the run before ended
\* normally and this run has read no round the runs before had not read)
\* leaves the store size unchanged.
SecondRunKeepsStoreSize ==
    (run >= 2 /\ prevRun = "same") =>
        Len(disk) = Len(loaded)

\* C1 witness: a second run has walked a round of two links, both in the
\* store, and finished without scraping.
SecondRunSkippedAll ==
    /\ run = 2 /\ pc = "done" /\ exit = "normal"
    /\ prevRun = "same"
    /\ links = <<111, 222>> /\ li = 3
    /\ scrapes = 0 /\ disk = loaded /\ IdsOf(disk) = {111, 222}

\* C2: with the store holding exactly 111 and the one round of the range
\* listing <<111, 222>>, a run that completes with the scrape of 222
\* succeeding has called scrape_match once, for 222, has appended one record
\* and has left exactly the ids {111, 222} in the store.
EndToEndScenario ==
    /\ loaded = <<Rec(111, 1)>>
    /\ start_matchday = 1 /\ end_matchday = 1
    /\ links = <<111, 222>>
    /\ pc = "done" /\ exit = "normal"
    /\ lastScrape.out = "ok"

EndToEnd ==
    EndToEndScenario =>
        /\ scrapes = 1 /\ lastScrape.mid = 222
        /\ saves = 1
        /\ all_match_data = Append(loaded, Rec(222, 1))
        /\ disk = all_match_data
        /\ IdsOf(disk) = {111, 222}

\* C2 witness: the scenario has run to its end.
EndToEndReached == EndToEndScenario /\ IdsOf(disk) = {111, 222} /\ li = 3

\* C3: a non-cancellation exception inside scrape_match leaves an empty
\* record, nothing appended, nothing saved, the id not in the seen set, and
\* main at the next link of the same round.
PageFailureAbortsOnlyMatch ==
    [][(ScrapeStep /\ lastScrape'.out \in PageFailures) =>
          /\ ~lastScrape'.got
          /\ all_match_data' = all_match_data
          /\ disk' = disk
          /\ saves' = saves
          /\ scraped_ids' = scraped_ids
          /\ lastScrape'.mid \notin scraped_ids'
          /\ pc' = "match" /\ md' = md /\ links' = links /\ li' = li + 1]_vars

\* C3 witness: the page load of the first of two links failed and main stands
\* at the second.
PageFailureSeen ==
    /\ lastScrape.out = "get_fail"
    /\ pc = "match" /\ Len(links) = 2 /\ li = 2
    /\ lastScrape.mid = links[1]
    /\ lastScrape.mid \notin scraped_ids
    /\ disk = loaded

\* C4 as stated: whenever scrape_match has returned or raised, the tab it
\* opened is closed and the driver is focused on the open original tab.
TabScopedAcquisition ==
    (scrapes > 0 /\ session = "live") =>
        /\ lastScrape.tab \notin windows
        /\ focus = OriginalTab
        /\ OriginalTab \in windows

SavedAfterEverySuccess ==
    /\ [](pc \in {"round", "links", "match"} => disk = all_match_data)
    /\ [][saves' # saves =>
             /\ ScrapeStep /\ lastScrape'.out = "ok"
             /\ saves' = saves + 1
             /\ all_match_data' =
                    Append(all_match_data, Rec(lastScrape'.mid, md))
             /\ disk' = all_match_data']_vars
    /\ [][(ScrapeStep /\ lastScrape'.out = "ok") => saves' = saves + 1]_vars

\* C6 witness: two matches of one round were scraped and saved.
TwoSaved ==
    /\ pc = "match" /\ li = 3 /\ saves = 2
    /\ Len(disk) = Len(loaded) + 2
    /\ disk = all_match_data

\* C7 as stated: a navigate_to_round(target) that immediately follows a
\* successful navigate_to_round(target) succeeds without any click.
NavigateIdempotent ==
    lastNav.again => lastNav.ok /\ Interactions(lastNav.ui) = 0

\* C8: when the dropdown selection failed, the round was read as c and every
\* arrow click succeeded, the call clicked the next-round arrow target - c
\* times when target > c, the previous-round arrow c - target times when
\* target < c, and the other arrow never.
ArrowStepsExact ==
    (/\ lastNav.op = "round" /\ lastNav.via = "arrows"
     /\ lastNav.current # None /\ lastNav.ok) =>
        LET c == lastNav.current
            t == lastNav.target
        IN /\ lastNav.ui.opt = 0
           /\ lastNav.ui.next = (IF t > c THEN t - c ELSE 0)
           /\ lastNav.ui.prev = (IF t < c THEN c - t ELSE 0)

\* C8 witness: from round 3 to round 1 by two previous-round clicks.
TwoStepsBack ==
    /\ lastNav.op = "round" /\ lastNav.via = "arrows" /\ lastNav.ok
    /\ lastNav.current = 3 /\ lastNav.target = 1
    /\ lastNav.ui.prev = 2 /\ lastNav.ui.next = 0
    /\ round = 1

\* C9 as stated: when select_season returns success the displayed season is
\* the target.
SelectSeasonVerified ==
    (lastNav.op = "season" /\ lastNav.ok) => displayedSeason = lastNav.season

\* C10: called while the displayed season is the target, select_season
\* returns success with no click and leaves the page as it was.
SelectSeasonNoOp ==
    [][(/\ calls' = calls + 1
        /\ lastNav'.op = "season"
        /\ displayedSeason = lastNav'.season) =>
          /\ lastNav'.ok
          /\ lastNav'.ui = NoUI
          /\ displayedSeason' = displayedSeason
          /\ round' = round
          /\ labelOK' = labelOK]_vars

\* C10 witness: a call that took the early return.
SeasonAlreadySelected ==
    /\ lastNav.op = "season" /\ lastNav.via = "already" /\ lastNav.ok
    /\ lastNav.ui = NoUI
    /\ displayedSeason = lastNav.season

\* C11 as stated: whenever navigate_to_round(target) returns success the page
\* shows the target round.
NavigateSuccessAtTarget ==
    (lastNav.op = "round" /\ lastNav.ok) => round = lastNav.target

\* C12: main handles the matchdays start_matchday..end_matchday in ascending
\* order, each at most once and none when start > end; within a matchday it
\* handles the links in the order get_match_links returned them, one by one;
\* it goes on to the next matchday only after the last link was handled.
MatchdaysInOrder ==
    /\ [](pc \in {"links", "match"} =>
            start_matchday <= md /\ md <= end_matchday)
    /\ [](start_matchday > end_matchday =>
            scrapes = 0 /\ pc \notin {"links", "match"})
    /\ [][md' # md => ((md = 0 /\ md' = start_matchday) \/ md' = md + 1)]_vars
    /\ [][pc' = "links" => pc = "round" /\ md' = md]_vars
    /\ [][(pc = "links" /\ pc' = "match") =>
             li' = 1 /\ md' = md /\ links' = site'[round]]_vars
    /\ [][(pc = "match" /\ pc' = "match") =>
             /\ li <= Len(links) /\ li' = li + 1
             /\ links' = links /\ md' = md
             /\ (ScrapeStep => lastScrape'.mid = links[li])]_vars
    /\ [][ScrapeStep => pc = "match" /\ li <= Len(links)
                          /\ lastScrape'.mid = links[li]]_vars
    /\ [][(pc = "match" /\ pc' = "round") =>
             li = Len(links) + 1 /\ md' = md + 1]_vars

\* C12 witness: the range 1..2, main in matchday 2 after a scrape in
\* matchday 1, the first link 222 of <<222, 111>> scraped, at the second.
SecondMatchdaySecondLink ==
    /\ start_matchday = 1 /\ end_matchday = 2 /\ md = 2
    /\ pc = "match" /\ links = <<222, 111>> /\ li = 2
    /\ scrapes = 2 /\ lastScrape.mid = 222

\* C13 as stated: after a failed select_season main has navigated to no
\* round, scraped nothing and saved nothing; and once the loop over the
\* matchdays has begun, nothing but a cancellation ends main before the
\* whole range has been attempted.
OnlySeasonFailureIsFatal ==
    /\ (exit = "season_failed" => md = 0 /\ scrapes = 0 /\ saves = 0)
    /\ (pc = "done" /\ md >= 1 /\ exit # "interrupted" =>
            md = Max(start_matchday, end_matchday + 1))

\* C14: however main leaves its try block (the range done, the season not
\* selected, a KeyboardInterrupt, any other exception) it ends with the
\* session torn down by scraper.quit(), and the durable store only ever
\* grows by one record at its end: the records of the loaded store and of
\* every written store stay where they were.
TeardownKeepsStore ==
    /\ [](pc = "done" => session # "live" /\ windows = {})
    /\ [](pc \in {"quit", "done"} <=> exit # "none")
    /\ [][exit # "none" => exit' = exit /\ disk' = disk]_vars
    /\ [](Len(disk) >= Len(loaded) /\ SubSeq(disk, 1, Len(loaded)) = loaded)
    /\ [][disk' # disk =>
             /\ saves' = saves + 1
             /\ Len(disk') = Len(disk) + 1
             /\ SubSeq(disk', 1, Len(disk)) = disk]_vars

\* C14 witness: main saved the record of 111, was interrupted in the scrape
\* of 222 and is done: the session is quit, the store holds the saved record.
InterruptedAfterOneSave ==
    /\ pc = "done" /\ exit = "interrupted" /\ session = "quit"
    /\ saves = 1 /\ scrapes = 2 /\ lastScrape.mid = 222
    /\ loaded = <<>>
    /\ disk = <<Rec(111, md)>>

\* C15 as stated: a scrape_match call in which an element went stale inside
\* an extractor still raises nothing and returns a non-empty record.
TransientAbsorbed ==
    (xpc = "done" /\ transient # {}) =>
        xexc = NoException /\ result.keys # {}

\* The value each extractor returns when it found nothing.
Sentinel(name) ==
    CASE name = "date_time_info" -> "Not found"
      [] name = "teams" -> [home_team |-> "N/A", away_team |-> "N/A"]
      [] name = "venue" -> [name |-> "N/A", location |-> "N/A"]
      [] OTHER -> "N/A"

SentinelFields == {"date_time_info", "teams", "venue", "referee", "odds",
                   "crowd_voting"}
HalfViews == {"first_half", "second_half"}

\* C16: an extractor all of whose lookups found nothing returns its
\* not-found value and does not raise, for each of date/time, teams, venue,
\* referee, odds and crowd voting; and the record scrape_match returns when
\* nothing was raised has every key, with the values the extractors returned.
MissingFieldGivesSentinel ==
    /\ missed \subseteq SentinelFields
    /\ \A f \in missed : fields[f] = Sentinel(f)
    /\ xexc.in \notin missed
    /\ (xpc = "done" /\ xexc = NoException) =>
          result.keys = FieldKeys /\ result.fields = fields

\* C16 witness: all six extractors found nothing and the record was returned
\* with the six not-found values.
AllFieldsMissing ==
    /\ xpc = "done" /\ missed = SentinelFields
    /\ result.keys = FieldKeys
    /\ \A f \in SentinelFields : result.fields[f] = Sentinel(f)

\* C17: a half-time view makes at most three attempts; when every attempt
\* failed (tab not clicked, or fewer than MinRows rows before the poll timed
\* out) the view is the empty sequence, three attempts were made, nothing is
\* raised and every other result is kept; the record returned when nothing
\* was raised has every key.
HalfViewFailureKeepsRecord ==
    /\ [](\A v \in HalfViews : statsLog[v].attempts <= MaxAttempts)
    /\ [](\A v \in HalfViews :
            (statsLog[v].attempts > 0 /\ ~statsLog[v].read) =>
                /\ fields.statistics[v] = <<>>
                /\ statsLog[v].attempts = MaxAttempts)
    /\ [][(xpc \in HalfViews /\ xpc' # xpc /\ ~statsLog'[xpc].read) =>
             /\ fields' = fields
             /\ xexc' = NoException
             /\ xpc' # "except"]_vars
    /\ []((xpc = "done" /\ xexc = NoException) =>
            result.keys = FieldKeys /\ result.fields = fields)

\* C17 witness: the first-half tab was clicked but all three polls timed out;
\* the record is returned with the overall and second-half rows and an empty
\* first half.
FirstHalfGaveUp ==
    /\ xpc = "done" /\ result.keys = FieldKeys
    /\ statsLog["first_half"].attempts = MaxAttempts
    /\ statsLog["first_half"].clicked /\ ~statsLog["first_half"].read
    /\ result.fields.statistics["first_half"] = <<>>
    /\ Len(result.fields.statistics["overall"]) = MinRows
    /\ Len(result.fields.statistics["second_half"]) = MinRows

\* C20 as stated: every statistics view that is read was read after its tab
\* was clicked and a poll saw at least MinRows rows.
EveryViewPolledBeforeRead ==
    \A v \in StatViews :
        statsLog[v].read => statsLog[v].clicked /\ statsLog[v].waited

\* C20 (as amended): the first-half and the second-half view are read only
\* after their tab was clicked and a poll saw at least MinRows rows; the
\* overall view is read as the page shows it, with no click and no poll.
HalfViewsPolledBeforeRead ==
    /\ \A v \in HalfViews :
          statsLog[v].read =>
              /\ statsLog[v].clicked /\ statsLog[v].waited
              /\ statsLog[v].rows >= MinRows
    /\ statsLog["overall"].read =>
          ~statsLog["overall"].clicked /\ ~statsLog["overall"].waited

\* C20 witness: all three views were read, the second half at its third
\* attempt.
AllViewsRead ==
    /\ xpc = "done"
    /\ \A v \in StatViews : statsLog[v].read
    /\ statsLog["second_half"].attempts = MaxAttempts
    /\ Len(result.fields.statistics["second_half"]) = MinRows

\* What the claim expects of one element: the absolute address of its link
\* and its id, the digits after '#id:' or else the last path segment.
ExpectedLink(c) ==
    [url |-> <<Origin>> \o PathOf(c),
     match_id |-> IF c.id THEN <<"1", "2">> ELSE <<"KsR">>]

RECURSIVE MatchElems(_)
\* The elements that link to a football match, in order.
MatchElems(elems) ==
    IF elems = <<>> THEN <<>>
    ELSE (IF Head(elems).href /\ Head(elems).sport = "football"
          THEN <<Head(elems)>> ELSE <<>>) \o MatchElems(Tail(elems))

\* C18 as stated: get_match_links returns one pair per element the selector
\* matched, in element order.
OneLinkPerElement ==
    hpc = "done" =>
        /\ Len(match_links) = Len(link_elems)
        /\ \A i \in 1..Len(link_elems) :
              match_links[i] = ExpectedLink(link_elems[i])

\* C18 (as amended): get_match_links returns, in element order, one pair per
\* matched element whose href contains '/football/match/' and nothing for
\* the others; the pair is the absolute address and the id as the claim has
\* them; two elements with the same link give two pairs.
OneLinkPerMatchHref ==
    hpc = "done" =>
        LET kept == MatchElems(link_elems) IN
        /\ Len(match_links) = Len(kept)
        /\ \A i \in 1..Len(kept) : match_links[i] = ExpectedLink(kept[i])

\* C18 witness: a relative link with an id twice over gives the same pair
\* twice.
SameLinkTwice ==
    /\ hpc = "done" /\ Len(link_elems) = 2
    /\ link_elems[1] = link_elems[2]
    /\ link_elems[1].href /\ ~link_elems[1].absolute /\ link_elems[1].id
    /\ Len(match_links) = 2 /\ match_links[1] = match_links[2]
    /\ match_links[1].match_id = <<"1", "2">>
    /\ match_links[1].url[1] = Origin

\* C19 as stated: the value for 'Total votes: <n><suffix>' is n with no
\* suffix, n * 1000 with k or K, n * 1000000 with m or M; a text without the
\* count gives the not-found value.
VotesTimesSuffix ==
    hpc = "done" =>
        IF vote_text.label
        THEN /\ total_votes.scraper.found
             /\ total_votes.scraper.tenths =
                    vote_text.tenths * Multiplier(vote_text.suffix)
        ELSE ~total_votes.scraper.found

\* C21 as stated: when the round label cannot be read and the dropdown
\* selection fails, navigate_to_round(target) clicks the next-round arrow
\* exactly target times, the previous-round arrow never, and reports success.
UnreadRoundAlwaysSucceeds ==
    (/\ lastNav.op = "round" /\ lastNav.current = None
     /\ lastNav.via = "arrows") =>
        /\ lastNav.ui.next = lastNav.target
        /\ lastNav.ui.prev = 0
        /\ lastNav.ok

\* C21 (as amended): when the round label cannot be read and the dropdown
\* selection fails, navigate_to_round(target) steps as from round 0: it
\* clicks only the next-round arrow, at most target times, and it reports
\* success exactly when all target clicks were accepted, whatever round the
\* page shows; it reports failure as soon as an arrow click fails.
UnreadRoundStepsFromZero ==
    (/\ lastNav.op = "round" /\ lastNav.current = None
     /\ lastNav.via = "arrows") =>
        /\ lastNav.ui.prev = 0
        /\ lastNav.ui.opt = 0
        /\ lastNav.ui.next <= lastNav.target
        /\ lastNav.ok <=> (lastNav.ui.next = lastNav.target)

\* C21 witness: the label is unreadable on round 2, target 2: two clicks on
\* the next-round arrow, success, and the page on round 3.
UnreadRoundOvershoots ==
    /\ lastNav.op = "round" /\ lastNav.current = None
    /\ lastNav.via = "arrows" /\ lastNav.ok
    /\ lastNav.before = 2 /\ lastNav.target = 2
    /\ lastNav.ui.next = 2 /\ lastNav.ui.prev = 0
    /\ round = 3

\* C22 as stated: the venue name _get_venue returns is the trimmed text of
\* the first strategy that gave a non-empty one, or the sentinel; it is
\* never the empty string.
VenueNameNeverEmpty ==
    /\ fields.venue.name # ""
    /\ result.fields.venue.name # ""

\* C23 as stated: a scrape_match call never closes the original tab; the
\* only window its cleanup may close is the tab the call opened.
OriginalTabNeverClosed ==
    [][ScrapeStep =>
          /\ OriginalTab \in windows => OriginalTab \in windows'
          /\ \A h \in windows : h \in windows' \/ h = lastScrape'.tab]_vars

\* main is inside its loop over the matchdays and their links.
InLoop == pc \in {"round", "links", "match"}

\* C24: at every point of main's loop between two matches the seen-id set is
\* the set of match ids of the in-memory list; a step of the loop changes the
\* set exactly when it changes the list, and then it appends the record of
\* the link at hand and adds that link's id.
SeenIdsAreListIds ==
    /\ [](InLoop => scraped_ids = IdsOf(all_match_data))
    /\ [][InLoop =>
            /\ (scraped_ids' # scraped_ids) => (all_match_data' # all_match_data)
            /\ (all_match_data' # all_match_data) =>
                  /\ ScrapeStep
                  /\ all_match_data' = Append(all_match_data, Rec(links[li], md))
                  /\ scraped_ids' = scraped_ids \cup {links[li]}
                  /\ links[li] \notin scraped_ids]_vars

\* C24 witness: the run loaded the record of match 111 and has appended the
\* one of match 222; both ids are in the set.
LoadedAndScrapedIdsSeen ==
    /\ pc = "match"
    /\ loaded = <<Rec(111, 1)>>
    /\ Len(all_match_data) = 2 /\ all_match_data[2].match_id = 222
    /\ scraped_ids = {111, 222}
    /\ saves = 1

\* C25: a safe_click(elt, retries) call makes at most retries native clicks
\* and ends; it returns True in the iteration in which the native click, or
\* after an intercepted or stale one the JavaScript click, succeeds; it
\* returns False only when all retries iterations have failed; a
\* KeyboardInterrupt ends the call at once and leaves it as the exception.
SafeClickBoundedAndTotal ==
    /\ [](/\ click.native <= click.i /\ click.i <= click.retries
          /\ click.fallback <= click.i)
    /\ [](click.result = "True" <=> click.last \in {"native_ok", "js_ok"})
    /\ [](click.result = "KeyboardInterrupt" <=> click.last = "interrupt")
    /\ [](click.result = "False" =>
            click.i = click.retries /\ click.last \in {"none", "failed"})
    /\ [](click.last = "failed" /\ click.i < click.retries =>
            click.result = "none")
    /\ [][click.result # "none" => click' = click]_vars
    /\ <>(click.result \in {"True", "False", "KeyboardInterrupt"})

\* C25 witness: with retries = 3 all three native clicks were intercepted or
\* stale, the JavaScript click failed twice and succeeded the third time.
ThirdAttemptFallback ==
    /\ hpc = "done" /\ click.retries = 3 /\ click.i = 3
    /\ click.native = 3 /\ click.fallback = 3
    /\ click.last = "js_ok" /\ click.result = "True"

====
